---- MODULE Spec2Model ----
(***************************************************************************)
(* Model of zydis_fuzzer.cc: the biased random instruction generator       *)
(* (generate_prefix_bytes, generate_rand_instr), the crash memento written *)
(* by wrapped_ZydisDecoderDecodeBuffer, the fault handler sigabrt_handler  *)
(* and the fuzzing loop of main.                                           *)
(*                                                                         *)
(* rand() is the C library generator; every call is a nondeterministic     *)
(* draw (\E) from a bounded set of values chosen per call site.            *)
(***************************************************************************)
EXTENDS Integers, Sequences, FiniteSets, TLC

\* -------------------------------------------------------------------------
\* Bounds of the model
\* -------------------------------------------------------------------------

\* iterations of the main loop that are explored (the source runs 2000000000)
MaxIter == 2

\* bytes of memory modelled after the 64-byte candidate buffer, so that a
\* write past the buffer is visible
GuardLen == 2

\* -------------------------------------------------------------------------
\* Program constants
\* -------------------------------------------------------------------------

BufLen == 64

InstrBufLen == 16

RexCount == 16

PrefixCountMod == 254

PrefixCountShift == 20

EscapeMod == 50

\* -------------------------------------------------------------------------
\* Bit operations on non-negative integers
\* -------------------------------------------------------------------------

RECURSIVE BitAnd(_, _)
BitAnd(a, b) ==
    IF a = 0 \/ b = 0 THEN 0
    ELSE (a % 2) * (b % 2) + 2 * BitAnd(a \div 2, b \div 2)

RECURSIVE BitOr(_, _)
BitOr(a, b) ==
    IF a = 0 THEN b
    ELSE IF b = 0 THEN a
    ELSE (IF a % 2 = 1 \/ b % 2 = 1 THEN 1 ELSE 0) + 2 * BitOr(a \div 2, b \div 2)

RECURSIVE BitXor(_, _)
BitXor(a, b) ==
    IF a = 0 THEN b
    ELSE IF b = 0 THEN a
    ELSE ((a + b) % 2) + 2 * BitXor(a \div 2, b \div 2)

\* a value stored through a uint8_t lvalue
ToU8(x) == x % 256

\* -------------------------------------------------------------------------
\* Memory holding the candidate buffer: offsets 0..BufLen-1 are buf[64], the
\* GuardLen offsets after it are the neighbouring stack bytes.  val is the
\* content, cnt counts the stores made to each offset during one call.
\* -------------------------------------------------------------------------

MemTop == BufLen + GuardLen - 1

Offsets == 0 .. MemTop

FreshMem(fill) == [val |-> [o \in Offsets |-> fill], cnt |-> [o \in Offsets |-> 0]]

ResetCnt(m) == [val |-> m.val, cnt |-> [o \in Offsets |-> 0]]

Store(m, off, x) ==
    [val |-> [m.val EXCEPT ![off] = ToU8(x)],
     cnt |-> [m.cnt EXCEPT ![off] = @ + 1]]

\* the stores of a loop for( idx=lo; idx<hi; idx++ ) base[idx] = bytes[idx]
StoreRange(m, lo, hi, bytes) ==
    [val |-> [o \in Offsets |->
                 IF lo <= o /\ o < hi THEN ToU8(bytes[o]) ELSE m.val[o]],
     cnt |-> [o \in Offsets |->
                 IF lo <= o /\ o < hi THEN m.cnt[o] + 1 ELSE m.cnt[o]]]

\* -------------------------------------------------------------------------
\* generate_prefix_bytes
\* -------------------------------------------------------------------------

prefix_collection ==
    << \h66, \h67, \hF2, \hF3,
       \h66, \h67, \hF2, \hF3,
       \h66, \h67, \hF2, \hF3,
       \h66, \h67, \hF2, \hF3,
       \h26, \h2E, \h36, \h3E,
       \h26, \h2E, \h36, \h3E,
       \h64, \h65, \h66, \hF0,
       \h40, \h41, \h42, \h43,
       \h44, \h45, \h46, \h47,
       \h48, \h49, \h4A, \h4B,
       \h4C, \h4D, \h4E, \h4F >>

\* faulty variant: the non-64-bit branch samples the whole table
PrefixIndexNoPartition(is64, r) == r % Len(prefix_collection)

\* the table index chosen by one draw r = rand()
PrefixIndex(is64, r) ==
    IF is64 THEN r % Len(prefix_collection)
    ELSE r % (Len(prefix_collection) - RexCount)

PrefixByte(is64, r) == prefix_collection[PrefixIndex(is64, r) + 1]

\* for( i=0; i<bytecount; i++ ) dst[i] = prefix_collection[ rand() % ... ];
\* draws[k] is the k-th value returned by rand() inside the call
generate_prefix_bytes(dst, bytecount, is64, draws) ==
    StoreRange(dst, 0, bytecount,
               [idx \in 0 .. bytecount - 1 |-> PrefixByte(is64, draws[idx + 1])])

\* -------------------------------------------------------------------------
\* generate_rand_instr
\* -------------------------------------------------------------------------

\* faulty variant: the shift is one bit short
NumPrefixesShift19(r) == (r * r * r) \div (2 ^ (PrefixCountShift - 1))

\* int num_prefixes = (r2*r2*r2) >> 20, for r2 >= 0
NumPrefixes(r) == (r * r * r) \div (2 ^ PrefixCountShift)


\* faulty variant: the first class boundary of the switch is off by one
EscapeClassShifted(sel) ==
    CASE sel = 0 -> "none"
      [] sel = 1 -> "3dnow"
      [] sel = 2 -> "0F38"
      [] sel = 3 -> "0F3A"
      [] sel = 4 -> "0F"
      [] sel \in 5 .. 11 -> "EVEX"
      [] sel \in 12 .. 16 -> "VEX3"
      [] sel \in 17 .. 22 -> "VEX2"
      [] OTHER -> "XOP"

\* the case labels of switch( rand() % 50 ); sel is the switch value
EscapeClass(sel) ==
    CASE sel = 0 -> "none"
      [] sel = 1 -> "3dnow"
      [] sel = 2 -> "0F38"
      [] sel = 3 -> "0F3A"
      [] sel = 4 -> "0F"
      [] sel \in 5 .. 10 -> "EVEX"
      [] sel \in 11 .. 16 -> "VEX3"
      [] sel \in 17 .. 22 -> "VEX2"
      [] OTHER -> "XOP"

\* rv & ((rv & 0x300) ? mask : 0xFF)
MaskedMapByte(rv, mask) ==
    BitAnd(rv, IF BitAnd(rv, \h300) # 0 THEN mask ELSE \hFF)

\* faulty variant: the XOP tag bit is not applied
XopMapByteNoTag(rv) == MaskedMapByte(rv, \hE3)

\* (rv & ((rv & 0x300) ? 0xE3 : 0xFF)) ^ 8
XopMapByte(rv) == BitXor(MaskedMapByte(rv, \hE3), 8)

\* faulty variant: the forcing condition is inverted
VvvvByteInverted(rv) ==
    ToU8(BitOr(rv, IF BitAnd(rv, \h300) # 0 THEN \h78 ELSE 0))

\* rv | ((rv & 0x300) ? 0 : 0x78), stored into a uint8_t
VvvvByte(rv) ==
    ToU8(BitOr(rv, IF BitAnd(rv, \h300) # 0 THEN 0 ELSE \h78))

\* the bytes one case of the switch stores through *bufptr++; rv1 and rv2
\* are the values rand() returns for the first and second assignment to rv
EscapeBytes(sel, rv1, rv2) ==
    LET c == EscapeClass(sel) IN
    CASE c = "none" -> << >>
      [] c = "3dnow" -> << \h0F, \h0F >>
      [] c = "0F38" -> << \h0F, \h38 >>
      [] c = "0F3A" -> << \h0F, \h3A >>
      [] c = "0F" -> << \h0F >>
      [] c = "EVEX" -> << \h62, MaskedMapByte(rv1, \hF7), VvvvByte(rv2) >>
      [] c = "VEX3" -> << \hC4, MaskedMapByte(rv1, \hE3), VvvvByte(rv2) >>
      [] c = "VEX2" -> << \hC5, VvvvByte(rv1) >>
      [] OTHER -> << \h8F, XopMapByte(rv1), VvvvByte(rv2) >>

\* the stores *bufptr++ = b for the bytes of one escape sequence
RECURSIVE StoreBytes(_, _, _)
StoreBytes(m, bufptr, bytes) ==
    IF bytes = << >> THEN m
    ELSE StoreBytes(Store(m, bufptr, Head(bytes)), bufptr + 1, Tail(bytes))

\* rand() & 0xFF: for r >= 0 the low eight bits of r are r modulo 256
TailByte(r) == r % 256

\* faulty variant: the fill starts one byte after the escape sequence
TailFillSkipsOne(m, remain_offset_, draws) ==
    StoreRange(m, remain_offset_ + 1, BufLen,
               [idx \in remain_offset_ + 1 .. BufLen - 1 |->
                   TailByte(draws[idx - remain_offset_])])

\* for( i=remain_offset; i<64; i++ ) buf[i] = rand() & 0xFF; draws[k] is the
\* k-th value returned by rand() inside the loop
TailFill(m, remain_offset_, draws) ==
    StoreRange(m, remain_offset_, BufLen,
               [idx \in remain_offset_ .. BufLen - 1 |->
                   TailByte(draws[idx - remain_offset_ + 1])])

\* a run of consecutive rand() results start, start+step, start+2*step, ...
Run(p) == [k \in 1 .. (BufLen + GuardLen) |-> p.start + (k - 1) * p.step]

\* One call generate_rand_instr( buf, is_64bit ).  d holds the values rand()
\* returns during the call: d.r2 (line 129), d.pfx (the prefix loop),
\* d.sel (line 138), d.rv1 and d.rv2 (the escape case), d.tail (the fill).
generate_rand_instr(m0, is64, d) ==
    LET r2_ == d.r2 % PrefixCountMod
        num_prefixes_ == NumPrefixes(r2_)
        m1 == generate_prefix_bytes(ResetCnt(m0), num_prefixes_, is64, Run(d.pfx))
        esc == EscapeBytes(d.sel % EscapeMod, d.rv1, d.rv2)
        m2 == StoreBytes(m1, num_prefixes_, esc)
        remain_offset_ == num_prefixes_ + Len(esc)
        m3 == TailFill(m2, remain_offset_, Run(d.tail))
    IN [mem |-> m3, r2 |-> r2_, num_prefixes |-> num_prefixes_,
        remain_offset |-> remain_offset_]

\* -------------------------------------------------------------------------
\* State
\* -------------------------------------------------------------------------

VARIABLES
    pc,                \* position of the control flow
    i,                 \* loop counter of main
    bits,              \* local of main
    decoder_to_use,    \* local of main: name of the selected decoder
    buf,               \* the candidate buffer (memory record)
    is_64bit,          \* argument of the generator
    r2,                \* local of generate_rand_instr
    num_prefixes,      \* local of generate_rand_instr / bytecount
    remain_offset,     \* local of generate_rand_instr
    rand_log,          \* the values rand() returned during the last call
    instr_buf,         \* memento: recorded bytes
    machine_mode_int,  \* memento: recorded machine mode
    machine_mode_str,  \* memento: recorded label
    stdout,            \* what has been printed
    exit_status,       \* "running", "EXIT_SUCCESS" or "EXIT_FAILURE"
    submitted,         \* log of the calls made to ZydisDecoderDecodeBuffer
    fault_at,          \* the pc at which a signal was delivered, or "none"
    libcalls           \* library functions called by the signal handler

genVars == << buf, is_64bit, r2, num_prefixes, remain_offset, rand_log >>

mainVars == << i, bits, decoder_to_use, instr_buf, machine_mode_int,
               machine_mode_str, stdout, exit_status, submitted, fault_at,
               libcalls >>

vars == << pc, genVars, mainVars >>

\* content of the uninitialised stack buffer before the first call
OldFills == { \h00, \hCC }

\* statics are zero-initialised: instr_buf all zero, machine_mode_int 0,
\* machine_mode_str a null pointer
MainInit ==
    /\ i = 0
    /\ bits = 0
    /\ decoder_to_use = "unset"
    /\ instr_buf = [j \in 0 .. InstrBufLen - 1 |-> 0]
    /\ machine_mode_int = "0"
    /\ machine_mode_str = "NULL"
    /\ stdout = << >>
    /\ exit_status = "running"
    /\ submitted = << >>
    /\ fault_at = "none"
    /\ libcalls = << >>

GenLocalsInit ==
    /\ r2 = 0
    /\ num_prefixes = 0
    /\ remain_offset = 0
    /\ rand_log = << >>

\* -------------------------------------------------------------------------
\* Specification SpecPrefix: one call of generate_prefix_bytes
\* -------------------------------------------------------------------------

\* values rand() may return inside generate_prefix_bytes
PrefixDraws == { 43, 100 }

\* runs of consecutive values, which reach every entry of the table
PrefixRuns == { [start |-> a, step |-> 1] : a \in 0 .. 87 }

PrefixInit ==
    /\ pc = "prefix_entry"
    /\ buf = FreshMem(\hCC)
    /\ is_64bit \in BOOLEAN
    /\ num_prefixes \in 0 .. 15
    /\ r2 = 0
    /\ remain_offset = 0
    /\ rand_log = << >>
    /\ MainInit

PrefixCall ==
    /\ pc = "prefix_entry"
    /\ \E draws \in [1 .. num_prefixes -> PrefixDraws]
                     \cup { [k \in 1 .. num_prefixes |-> Run(p)[k]] : p \in PrefixRuns } :
          /\ buf' = generate_prefix_bytes(buf, num_prefixes, is_64bit, draws)
          /\ rand_log' = draws
    /\ pc' = "prefix_done"
    /\ UNCHANGED << is_64bit, r2, num_prefixes, remain_offset, mainVars >>

PrefixNext == PrefixCall

SpecPrefix == PrefixInit /\ [][PrefixNext]_vars

\* -------------------------------------------------------------------------
\* Specification SpecCount: the prefix count computed at lines 129-130
\* -------------------------------------------------------------------------

\* values rand() may return at line 129
CountDraws == 0 .. (2 * PrefixCountMod - 1)

CountInit ==
    /\ pc = "count_entry"
    /\ buf = FreshMem(\hCC)
    /\ is_64bit = FALSE
    /\ GenLocalsInit
    /\ MainInit

ComputePrefixCount ==
    /\ pc = "count_entry"
    /\ \E r \in CountDraws :
          /\ r2' = r % PrefixCountMod
          /\ num_prefixes' = NumPrefixes(r % PrefixCountMod)
          /\ rand_log' = << r >>
    /\ pc' = "count_done"
    /\ UNCHANGED << buf, is_64bit, remain_offset, mainVars >>

CountNext == ComputePrefixCount

SpecCount == CountInit /\ [][CountNext]_vars

\* -------------------------------------------------------------------------
\* Specification SpecGen: one call of generate_rand_instr
\* -------------------------------------------------------------------------

GenR2Draws == { 0, 102, 128, 381, 250, 507 }

GenPfxRuns == { [start |-> 0, step |-> 1], [start |-> 28, step |-> 1],
                [start |-> 43, step |-> 29] }

GenSelDraws == { 0, 1, 2, 3, 4, 5, 10, 11, 16, 17, 22, 23, 49, 55 }

GenRvDraws == { \h0FF, \h1FF, \h005, \h12285 }

GenTailRuns == { [start |-> \h1A5, step |-> 7], [start |-> 0, step |-> 341] }

GenDraws ==
    [r2 : GenR2Draws, pfx : GenPfxRuns, sel : GenSelDraws,
     rv1 : GenRvDraws, rv2 : GenRvDraws, tail : GenTailRuns]

\* the assignments made by one call generate_rand_instr( buf, is64 )
CallGenerateRandInstr(is64, d) ==
    \E g \in { generate_rand_instr(buf, is64, d) } :
    /\ buf' = g.mem
    /\ is_64bit' = is64
    /\ r2' = g.r2
    /\ num_prefixes' = g.num_prefixes
    /\ remain_offset' = g.remain_offset
    /\ rand_log' = d

GenInit ==
    /\ pc = "gen_entry"
    /\ \E f \in OldFills : buf = FreshMem(f)
    /\ is_64bit \in BOOLEAN
    /\ GenLocalsInit
    /\ MainInit

GenCall ==
    /\ pc = "gen_entry"
    /\ \E d \in GenDraws : CallGenerateRandInstr(is_64bit, d)
    /\ pc' = "gen_done"
    /\ UNCHANGED mainVars

GenNext == GenCall

SpecGen == GenInit /\ [][GenNext]_vars


\* -------------------------------------------------------------------------
\* Specification Spec: main, the decode wrapper and the signal handler
\* -------------------------------------------------------------------------

\* the four decoders prepared by main (ZydisDecoderInit, ZydisDecoderEnableMode)
Decoders ==
    [decoder_x86_16 |->
        [machine_mode |-> "ZYDIS_MACHINE_MODE_LEGACY_16",
         address_width |-> "ZYDIS_ADDRESS_WIDTH_16",
         knc |-> TRUE, amd_branches |-> FALSE],
     decoder_x86_32 |->
        [machine_mode |-> "ZYDIS_MACHINE_MODE_LEGACY_32",
         address_width |-> "ZYDIS_ADDRESS_WIDTH_32",
         knc |-> TRUE, amd_branches |-> FALSE],
     decoder_x86_64_intel |->
        [machine_mode |-> "ZYDIS_MACHINE_MODE_LONG_64",
         address_width |-> "ZYDIS_ADDRESS_WIDTH_64",
         knc |-> TRUE, amd_branches |-> FALSE],
     decoder_x86_64_amd |->
        [machine_mode |-> "ZYDIS_MACHINE_MODE_LONG_64",
         address_width |-> "ZYDIS_ADDRESS_WIDTH_64",
         knc |-> TRUE, amd_branches |-> TRUE]]

DecoderNames == DOMAIN Decoders

\* the switch of the wrapper that chooses machine_mode_str
ModeLabel(mode) ==
    CASE mode = "ZYDIS_MACHINE_MODE_LONG_64" -> "long64"
      [] mode = "ZYDIS_MACHINE_MODE_LEGACY_32" -> "protected32"
      [] mode = "ZYDIS_MACHINE_MODE_LEGACY_16" -> "protected16"
      [] mode = "ZYDIS_MACHINE_MODE_REAL_16" -> "real16"
      [] OTHER -> "(n/a)"

\* faulty variant: the copy is one byte short
MementoBytesShort(buffer) ==
    [j \in 0 .. InstrBufLen - 1 |->
        IF j < InstrBufLen - 1 THEN buffer[j] ELSE instr_buf[j]]

\* memcpy( instr_buf, buffer, 16 )
MementoBytes(buffer) == [j \in 0 .. InstrBufLen - 1 |-> buffer[j]]

\* the signals the handler is installed for
Signals == { "SIGABRT", "SIGSEGV", "SIGBUS" }

\* the switch of the handler that chooses sigstr
SigStr(signal_type) ==
    CASE signal_type = "SIGABRT" -> "SIGABRT"
      [] signal_type = "SIGSEGV" -> "SIGSEGV"
      [] signal_type = "SIGBUS" -> "SIGBUS"
      [] OTHER -> "n/a"

\* the library calls the handler makes, in order
HandlerCalls ==
    << "printf", "printf", "printf" >>
    \o [j \in 1 .. InstrBufLen |-> "printf"]
    \o << "printf", "fflush", "exit" >>

\* values rand() may return at line 276
ConfigDraws == { 4, 1, 2, 7 }

\* values rand() may return during a call of generate_rand_instr made by
\* the loop
LoopDraws ==
    [r2 : { 0, 128 }, pfx : { [start |-> 43, step |-> 29] }, sel : { 5 },
     rv1 : { \h1FF }, rv2 : { \h005 },
     tail : { [start |-> \h1A5, step |-> 7], [start |-> 0, step |-> 341] }]

Init ==
    /\ pc = "loop"
    /\ \E f \in OldFills : buf = FreshMem(f)
    /\ is_64bit = FALSE
    /\ GenLocalsInit
    /\ MainInit

\* for(i=0;i<...;i++) and switch( rand() & 3 )
SelectDecoder ==
    /\ pc = "loop"
    /\ i < MaxIter
    /\ \E r \in ConfigDraws :
          LET c == BitAnd(r, 3) IN
          /\ bits' = (CASE c = 0 -> 16 [] c = 1 -> 32 [] OTHER -> 64)
          /\ decoder_to_use' =
                (CASE c = 0 -> "decoder_x86_16"
                   [] c = 1 -> "decoder_x86_32"
                   [] c = 2 -> "decoder_x86_64_intel"
                   [] OTHER -> "decoder_x86_64_amd")
    /\ pc' = "generate"
    /\ UNCHANGED << genVars, i, instr_buf, machine_mode_int, machine_mode_str,
                    stdout, exit_status, submitted, fault_at, libcalls >>

\* generate_rand_instr( buf, bits==64 )
GenerateCandidate ==
    /\ pc = "generate"
    /\ \E d \in LoopDraws : CallGenerateRandInstr(bits = 64, d)
    /\ pc' = "memcpy"
    /\ UNCHANGED mainVars

\* wrapper, line 217
RecordBytes ==
    /\ pc = "memcpy"
    /\ instr_buf' = MementoBytes(buf.val)
    /\ pc' = "mode_int"
    /\ UNCHANGED << genVars, i, bits, decoder_to_use, machine_mode_int,
                    machine_mode_str, stdout, exit_status, submitted,
                    fault_at, libcalls >>

\* wrapper, line 218
RecordModeInt ==
    /\ pc = "mode_int"
    /\ machine_mode_int' = Decoders[decoder_to_use].machine_mode
    /\ pc' = "mode_str"
    /\ UNCHANGED << genVars, i, bits, decoder_to_use, instr_buf,
                    machine_mode_str, stdout, exit_status, submitted,
                    fault_at, libcalls >>

\* wrapper, lines 219-225
RecordModeStr ==
    /\ pc = "mode_str"
    /\ machine_mode_str' = ModeLabel(machine_mode_int)
    /\ pc' = "call_decoder"
    /\ UNCHANGED << genVars, i, bits, decoder_to_use, instr_buf,
                    machine_mode_int, stdout, exit_status, submitted,
                    fault_at, libcalls >>

\* wrapper, line 226: control enters ZydisDecoderDecodeBuffer
CallDecoder ==
    /\ pc = "call_decoder"
    /\ submitted' = Append(submitted,
                           [decoder |-> decoder_to_use,
                            buffer |-> [o \in 0 .. BufLen - 1 |-> buf.val[o]],
                            length |-> BufLen])
    /\ pc' = "decode"
    /\ UNCHANGED << genVars, i, bits, decoder_to_use, instr_buf,
                    machine_mode_int, machine_mode_str, stdout, exit_status,
                    fault_at, libcalls >>

\* the decoder returns without a fault
DecoderReturns ==
    /\ pc = "decode"
    /\ pc' = "progress"
    /\ UNCHANGED << genVars, mainVars >>

\* breadcrumbs, and the i++ of the loop
Progress ==
    /\ pc = "progress"
    /\ LET passed_tests == i + 1 IN
       stdout' = IF passed_tests % 1000000 = 0
                 THEN IF passed_tests % 10000000 = 0
                      THEN stdout \o << [kind |-> "crumb"],
                                        [kind |-> "count",
                                         millions |-> passed_tests \div 1000000] >>
                      ELSE Append(stdout, [kind |-> "crumb"])
                 ELSE stdout
    /\ i' = i + 1
    /\ pc' = "loop"
    /\ UNCHANGED << genVars, bits, decoder_to_use, instr_buf, machine_mode_int,
                    machine_mode_str, exit_status, submitted, fault_at,
                    libcalls >>

\* the loop budget is exhausted: return 0
MainReturn ==
    /\ pc = "loop"
    /\ i >= MaxIter
    /\ pc' = "exited"
    /\ exit_status' = "EXIT_SUCCESS"
    /\ UNCHANGED << genVars, i, bits, decoder_to_use, instr_buf,
                    machine_mode_int, machine_mode_str, stdout, submitted,
                    fault_at, libcalls >>

\* A signal is delivered while the process runs and sigabrt_handler runs to
\* its exit( EXIT_FAILURE ).  The main control flow is suspended meanwhile.
sigabrt_handler ==
    /\ pc # "exited"
    /\ \E signal_type \in Signals :
          stdout' = Append(stdout,
                           [kind |-> "diag",
                            mode |-> machine_mode_int,
                            label |-> machine_mode_str,
                            sigstr |-> SigStr(signal_type),
                            bytes |-> instr_buf])
    /\ libcalls' = HandlerCalls
    /\ exit_status' = "EXIT_FAILURE"
    /\ fault_at' = pc
    /\ pc' = "exited"
    /\ UNCHANGED << genVars, i, bits, decoder_to_use, instr_buf,
                    machine_mode_int, machine_mode_str, submitted >>

Next ==
    \/ SelectDecoder
    \/ GenerateCandidate
    \/ RecordBytes
    \/ RecordModeInt
    \/ RecordModeStr
    \/ CallDecoder
    \/ DecoderReturns
    \/ Progress
    \/ MainReturn
    \/ sigabrt_handler

Spec == Init /\ [][Next]_vars


\* =========================================================================
\* Properties
\* =========================================================================

\* the first 16 bytes of a buffer handed to the decoder
First16(buffer) == [j \in 0 .. 15 |-> buffer[j]]

\* the label each decoder's machine mode is expected to be reported with
ExpectedLabel(dname) ==
    CASE dname = "decoder_x86_16" -> "protected16"
      [] dname = "decoder_x86_32" -> "protected32"
      [] OTHER -> "long64"

\* the diagnostic block printed by the handler
Report == stdout[Len(stdout)]

HandlerRan == pc = "exited" /\ fault_at # "none"

\* C1: the memento holds the bytes and configuration of submission k from
\* the moment the decoder is entered on iteration k; a fault during the k-th
\* decode call prints exactly the 16 bytes, identifier and label of
\* submission k, the process ends with EXIT_FAILURE and nothing runs after.
C1_FaultDuringDecodeReportsSubmission ==
    /\ pc = "decode" =>
          /\ Len(submitted) = i + 1
          /\ instr_buf = First16(submitted[i + 1].buffer)
          /\ machine_mode_int = Decoders[submitted[i + 1].decoder].machine_mode
          /\ machine_mode_str = ExpectedLabel(submitted[i + 1].decoder)
    /\ (HandlerRan /\ fault_at = "decode") =>
          /\ Len(submitted) = i + 1
          /\ Report.kind = "diag"
          /\ Report.bytes = First16(submitted[i + 1].buffer)
          /\ Report.mode = Decoders[submitted[i + 1].decoder].machine_mode
          /\ Report.label = ExpectedLabel(submitted[i + 1].decoder)
          /\ exit_status = "EXIT_FAILURE"
          /\ ~ ENABLED Next

\* a fault in the second decode call, whose submission differs from the
\* first one in bytes and in machine mode
C1_Witness ==
    /\ HandlerRan
    /\ fault_at = "decode"
    /\ Len(submitted) = 2
    /\ First16(submitted[1].buffer) # First16(submitted[2].buffer)
    /\ Decoders[submitted[1].decoder].machine_mode
          # Decoders[submitted[2].decoder].machine_mode
    /\ Report.bytes = First16(submitted[2].buffer)

\* whether the three reported fields are those of submission (dname, buffer)
ReportIsOf(dname, buffer) ==
    /\ Report.bytes = First16(buffer)
    /\ Report.mode = Decoders[dname].machine_mode
    /\ Report.label = ExpectedLabel(dname)

\* C2 (as claimed): whenever the handler runs, the bytes, identifier and
\* label it reads all belong to one submission: a submission already made,
\* the one being prepared, or (before any) the untouched initial memento.
C2_HandlerSeesOneSubmission ==
    HandlerRan =>
       \/ \E k \in 1 .. Len(submitted) :
             ReportIsOf(submitted[k].decoder, submitted[k].buffer)
       \/ /\ decoder_to_use # "unset"
          /\ ReportIsOf(decoder_to_use, buf.val)
       \/ /\ Report.bytes = [j \in 0 .. 15 |-> 0]
          /\ Report.mode = "0"
          /\ Report.label = "NULL"

\* C5 (as claimed): every library function the handler calls is
\* async-signal-safe (the functions POSIX lists as such).
C5_HandlerIsAsyncSignalSafe ==
    HandlerRan =>
       \A k \in 1 .. Len(libcalls) :
          libcalls[k] \in { "_exit", "_Exit", "abort", "write", "signal",
                            "sigaction", "raise", "kill" }

\* C8 (as claimed): the pair (identifier, label) recorded for the submitted
\* configuration differs from the pair any other of the four configurations
\* would record.
C8_RecordedPairIdentifiesConfiguration ==
    pc = "decode" =>
       \A d \in DecoderNames \ { decoder_to_use } :
          << Decoders[d].machine_mode, ModeLabel(Decoders[d].machine_mode) >>
             # << machine_mode_int, machine_mode_str >>

\* the byte values of all 44 catalog entries, and of the first 28
FullCatalog == { prefix_collection[k] : k \in 1 .. 44 }

LegacyCatalog == { prefix_collection[k] : k \in 1 .. 28 }

\* C3: after generate_prefix_bytes with n in 0..15, exactly dst[0..n-1] have
\* been written; without is_64bit every written byte is one of the first 28
\* catalog entries and none lies in 0x40..0x4F; with is_64bit every written
\* byte is one of the 44 catalog entries.
C3_PrefixBytesFromCatalog ==
    pc = "prefix_done" =>
       /\ num_prefixes \in 0 .. 15
       /\ \A o \in Offsets :
             /\ (buf.cnt[o] > 0) <=> (o < num_prefixes)
             /\ o >= num_prefixes => buf.val[o] = \hCC
       /\ \A o \in 0 .. num_prefixes - 1 :
             IF is_64bit
             THEN buf.val[o] \in FullCatalog
             ELSE /\ buf.val[o] \in LegacyCatalog
                  /\ buf.val[o] \notin \h40 .. \h4F

\* a 15-byte run outside 64-bit mode whose last draw, 43, would index a REX
\* entry of the full table
C3_Witness ==
    /\ pc = "prefix_done"
    /\ num_prefixes = 15
    /\ ~ is_64bit
    /\ rand_log[15] = 43
    /\ buf.val[14] = \hF3

\* the number of r in 0..253 whose prefix count is k
CountHistogram ==
    [k \in 0 .. 15 |-> Cardinality({ r \in 0 .. 253 : NumPrefixes(r) = k })]

CountMass(k) == CountHistogram[k]

\* C7: for r in 0..253 the product r*r*r stays within a 32-bit signed int,
\* the count (r*r*r) >> 20 is in 0..15, the number of r giving count k+1
\* never exceeds the number giving count k, and more than half of the r
\* give a count in {0,1,2}.
C7_PrefixCountDistribution ==
    pc = "count_done" =>
       /\ r2 \in 0 .. 253
       /\ r2 * r2 <= 2147483647 /\ r2 * r2 * r2 <= 2147483647
       /\ num_prefixes \in 0 .. 15
       /\ \A k \in 0 .. 14 : CountMass(k + 1) <= CountMass(k)
       /\ 2 * (CountMass(0) + CountMass(1) + CountMass(2)) > 254

\* the largest draw value gives the largest count
C7_Witness ==
    /\ pc = "count_done"
    /\ r2 = 253
    /\ num_prefixes = 15

\* the length of the escape sequence written by the last call
EscapeLen == remain_offset - num_prefixes

\* the k-th byte of the escape sequence written by the last call
EscapeAt(k) == buf.val[num_prefixes + k - 1]

\* the switch value of the last call
Sel == rand_log.sel % 50

\* C4: one call computes a prefix count in 0..15, an escape sequence of 0..3
\* bytes (the fill starts at an offset of at most 18), writes each of the
\* offsets 0..63 exactly once and no other offset, and the resulting buffer is
\* the same whatever the buffer held before.
C4_EveryOffsetWrittenOnce ==
    pc = "gen_done" =>
       /\ num_prefixes \in 0 .. 15
       /\ EscapeLen \in 0 .. 3
       /\ remain_offset <= 18
       /\ \A o \in Offsets : buf.cnt[o] = (IF o < 64 THEN 1 ELSE 0)
       /\ \A f \in OldFills :
             LET other == generate_rand_instr(FreshMem(f), is_64bit, rand_log).mem
             IN \A o \in 0 .. 63 : other.val[o] = buf.val[o]

\* the longest prefix run followed by a three-byte escape sequence
C4_Witness ==
    /\ pc = "gen_done"
    /\ num_prefixes = 15
    /\ remain_offset = 18
    /\ buf.cnt[63] = 1

\* C6: the switch value is one of 0..49; 0 selects no escape, 1 the bytes
\* 0F 0F, 2 the bytes 0F 38, 3 the bytes 0F 3A, 4 the byte 0F; six values
\* each select the lead bytes 0x62, 0xC4 and 0xC5 and the other 27 values
\* select the lead byte 0x8F.
C6_EscapeClassPartition ==
    pc = "gen_done" =>
       /\ Sel \in 0 .. 49
       /\ Sel = 0 => EscapeLen = 0
       /\ Sel = 1 => EscapeLen = 2 /\ EscapeAt(1) = \h0F /\ EscapeAt(2) = \h0F
       /\ Sel = 2 => EscapeLen = 2 /\ EscapeAt(1) = \h0F /\ EscapeAt(2) = \h38
       /\ Sel = 3 => EscapeLen = 2 /\ EscapeAt(1) = \h0F /\ EscapeAt(2) = \h3A
       /\ Sel = 4 => EscapeLen = 1 /\ EscapeAt(1) = \h0F
       /\ Sel \in 5 .. 10 => EscapeAt(1) = \h62
       /\ Sel \in 11 .. 16 => EscapeAt(1) = \hC4
       /\ Sel \in 17 .. 22 => EscapeAt(1) = \hC5
       /\ Sel \in 23 .. 49 => EscapeAt(1) = \h8F
       /\ \A c \in { "none", "3dnow", "0F38", "0F3A", "0F" } :
             Cardinality({ v \in 0 .. 49 : EscapeClass(v) = c }) = 1
       /\ \A c \in { "EVEX", "VEX3", "VEX2" } :
             Cardinality({ v \in 0 .. 49 : EscapeClass(v) = c }) = 6
       /\ Cardinality({ v \in 0 .. 49 : EscapeClass(v) = "XOP" }) = 27

\* the first value of the residual class selects the lead byte 0x8F
C6_Witness ==
    /\ pc = "gen_done"
    /\ Sel = 23
    /\ EscapeAt(1) = \h8F
    /\ EscapeLen = 3

\* the low eight bits of a random word
Low8(rv) == rv % 256

\* whether bits 8-9 of a random word are both zero
Bits89Zero(rv) == BitAnd(rv, \h300) = 0

\* the second byte the claim describes for the families 0x62, 0xC4, 0x8F
SecondByteRule(rv, mask, tag) ==
    BitXor(IF Bits89Zero(rv) THEN Low8(rv) ELSE BitAnd(Low8(rv), mask), tag)

\* C9 (as claimed): each of the four families 0x62, 0xC4, 0xC5, 0x8F emits a
\* second and a third byte; the second byte is the low byte of rv, masked
\* (0xF7 for 0x62, 0xE3 for 0xC4 and 0x8F) when rv & 0x300 is nonzero and
\* unmasked otherwise, 0x8F then XORing 0x08 into it.
C9_Original ==
    (pc = "gen_done" /\ Sel \in 5 .. 49) =>
       /\ EscapeLen = 3
       /\ Sel \in 5 .. 10 => EscapeAt(2) = SecondByteRule(rand_log.rv1, \hF7, 0)
       /\ Sel \in 11 .. 16 => EscapeAt(2) = SecondByteRule(rand_log.rv1, \hE3, 0)
       /\ Sel \in 17 .. 22 =>
             (Bits89Zero(rand_log.rv1) => EscapeAt(2) = Low8(rand_log.rv1))
       /\ Sel \in 23 .. 49 => EscapeAt(2) = SecondByteRule(rand_log.rv1, \hE3, 8)

\* C9 (amended): the families 0x62, 0xC4 and 0x8F emit a second and a third
\* byte, with the second byte masked as claimed (0x8F XORs 0x08 into it, so
\* that (byte & 0x1C) = 0x08 in the masked case); the family 0xC5 emits a
\* second byte only, the low byte of rv with 0x78 OR-ed in when rv & 0x300
\* is zero.
C9_SecondByteRule ==
    (pc = "gen_done" /\ Sel \in 5 .. 49) =>
       /\ Sel \in 5 .. 10 =>
             /\ EscapeLen = 3
             /\ EscapeAt(2) = SecondByteRule(rand_log.rv1, \hF7, 0)
       /\ Sel \in 11 .. 16 =>
             /\ EscapeLen = 3
             /\ EscapeAt(2) = SecondByteRule(rand_log.rv1, \hE3, 0)
       /\ Sel \in 17 .. 22 =>
             /\ EscapeLen = 2
             /\ EscapeAt(2) = IF Bits89Zero(rand_log.rv1)
                              THEN BitOr(Low8(rand_log.rv1), \h78)
                              ELSE Low8(rand_log.rv1)
       /\ Sel \in 23 .. 49 =>
             /\ EscapeLen = 3
             /\ EscapeAt(2) = SecondByteRule(rand_log.rv1, \hE3, 8)
             /\ ~ Bits89Zero(rand_log.rv1) => BitAnd(EscapeAt(2), \h1C) = 8

\* an XOP sequence whose second byte was masked and tagged
C9_Witness ==
    /\ pc = "gen_done"
    /\ Sel \in 23 .. 49
    /\ rand_log.rv1 = \h1FF
    /\ EscapeAt(1) = \h8F
    /\ EscapeAt(2) = \hEB

\* C10 (as claimed): in the families 0x62, 0xC4 and 0x8F the third byte is
\* the low byte of the second word with 0x78 OR-ed in exactly when bits 8-9
\* of the first word were zero, and the low byte unchanged otherwise.
C10_Original ==
    (pc = "gen_done" /\ (Sel \in 5 .. 16 \/ Sel \in 23 .. 49)) =>
       EscapeAt(3) = IF Bits89Zero(rand_log.rv1)
                     THEN BitOr(Low8(rand_log.rv2), \h78)
                     ELSE Low8(rand_log.rv2)

\* C10 (amended): in the families 0x62, 0xC4 and 0x8F the third byte is the
\* low byte of the second word with 0x78 OR-ed in exactly when bits 8-9 of
\* that second word are zero, and the low byte unchanged otherwise; the
\* first word does not enter.
C10_ThirdByteRule ==
    (pc = "gen_done" /\ (Sel \in 5 .. 16 \/ Sel \in 23 .. 49)) =>
       EscapeAt(3) = IF Bits89Zero(rand_log.rv2)
                     THEN BitOr(Low8(rand_log.rv2), \h78)
                     ELSE Low8(rand_log.rv2)

\* an EVEX sequence whose map byte was left unmasked (first word's bits 8-9
\* zero) while the third byte did not get 0x78 (second word's bits nonzero)
C10_Witness ==
    /\ pc = "gen_done"
    /\ Sel \in 5 .. 10
    /\ Bits89Zero(rand_log.rv1)
    /\ ~ Bits89Zero(rand_log.rv2)
    /\ EscapeAt(2) = Low8(rand_log.rv1)
    /\ EscapeAt(3) = Low8(rand_log.rv2)
    /\ BitAnd(EscapeAt(3), \h78) # \h78

====
